---- MODULE Spec2Model ----
(***************************************************************************)
(* howis: verify local files against remote content, with a replayable     *)
(* record file (src/main.rs).                                               *)
(*                                                                         *)
(* Text is modelled as sequences of one-character strings, so that the     *)
(* record file's line format, split_once(": "), rsplit_once('/'),          *)
(* replace("{}", name) and contains(name) are computed as the code         *)
(* computes them.  The record file is one flat sequence of characters.     *)
(***************************************************************************)
EXTENDS Integers, Sequences, FiniteSets, TLC

VARIABLES
    FILE,       \* the <FILE>... arguments, in order
    srcArg,     \* the --src argument: a list file's lines or a template
    rec,        \* content of the record file (persists across runs)
    rec0,       \* the record file as this run found it
    run,        \* number of the current process run
    pc,         \* position of the current run in main()
    src,        \* main's `src`
    counter,    \* main's `counter`
    rec_set,    \* main's `rec_set`
    idx,        \* position of the main loop in FILE
    rest,       \* what src.into_rest() has not yielded yet
    handle,     \* last response held by the curl handle
    loaded,     \* the counters printed by "loaded: ..."
    appended,   \* lines this run has completely written: [name, status, pass]
    resolved,   \* src.provide calls of this run: [name, url]
    compared,   \* names this run started a transfer for
    probed,     \* names this run probed, in order
    partial,    \* the item whose writeln! was cut short by an interruption
    prev,       \* what earlier runs left behind
    cmp,        \* state of one transfer, stepped chunk by chunk (SpecCmp)
    calls,      \* provide/remove calls made so far (SpecSrc)
    par         \* two processes started on one record file (SpecPar)

vars == <<FILE, srcArg, rec, rec0, run, pc, src, counter, rec_set, idx, rest,
          handle, loaded, appended, resolved, compared, probed, partial,
          prev, cmp, calls, par>>

(***************************************************************************)
(* Bounds                                                                  *)
(***************************************************************************)
MaxFiles == 2       \* number of <FILE> arguments
MaxSrcLines == 2    \* number of lines of the source list file
MaxRuns == 2        \* number of process runs against the same record file
MaxLen == 2         \* length of local and remote contents (SpecCmp)
MaxChunks == 2      \* number of chunks a remote content arrives in (SpecCmp)
MaxCalls == 3       \* number of provide/remove calls (SpecSrc)
BufLen == 2         \* stands for the 16384-byte buffer of main

(***************************************************************************)
(* Text helpers (std::str)                                                 *)
(***************************************************************************)
None == <<>>

Some(x) == <<x>>

NL == "\n"
CR == "\r"

Drop(s, n) == SubSeq(s, n + 1, Len(s))

Take(s, n) == SubSeq(s, 1, n)

starts_with(s, p) == Len(p) <= Len(s) /\ Take(s, Len(p)) = p

ends_with(s, c) == Len(s) > 0 /\ s[Len(s)] = c

pop(s) == Take(s, Len(s) - 1)

\* positions at which p occurs in s
Occurrences(s, p) == {i \in 1..(Len(s) - Len(p) + 1) : SubSeq(s, i, i + Len(p) - 1) = p}

Min(S) == CHOOSE i \in S : \A j \in S : i <= j

Max(S) == CHOOSE i \in S : \A j \in S : i >= j

contains(s, p) == Occurrences(s, p) # {}

\* str::split_once: split at the first occurrence of p
split_once(s, p) ==
    IF Occurrences(s, p) = {} THEN None
    ELSE LET i == Min(Occurrences(s, p))
         IN  Some(<<Take(s, i - 1), Drop(s, i + Len(p) - 1)>>)

\* str::rsplit_once: split at the last occurrence of p
rsplit_once(s, p) ==
    IF Occurrences(s, p) = {} THEN None
    ELSE LET i == Max(Occurrences(s, p))
         IN  Some(<<Take(s, i - 1), Drop(s, i + Len(p) - 1)>>)

\* str::replace: every non-overlapping occurrence, left to right
RECURSIVE replace(_, _, _)
replace(s, from, to) ==
    IF split_once(s, from) = None THEN s
    ELSE split_once(s, from)[1][1] \o to \o replace(split_once(s, from)[1][2], from, to)

RECURSIVE Flatten(_)
Flatten(ss) == IF ss = <<>> THEN <<>> ELSE Head(ss) \o Flatten(Tail(ss))

SEP == <<":", " ">>
GOOD == <<"g", "o", "o", "d">>
BAD == <<"b", "a", "d">>
NA == <<"n", "/", "a">>
ERROR == <<"e", "r", "r", "o", "r">>
MISSING_SOURCE == <<"m", "i", "s", "s", "i", "n", "g", " ", "s", "o", "u", "r", "c", "e">>
AVAILABLE == <<"a", "v", "a", "i", "l", "a", "b", "l", "e">>
MARKER == <<"{", "}">>

(***************************************************************************)
(* enum Source, impl FromStr for Source, impl Source                       *)
(***************************************************************************)
EmptyMap == [n \in {} |-> <<>>]

List(map) == [kind |-> "List", map |-> map, template |-> <<>>]

Template(t) == [kind |-> "Template", map |-> EmptyMap, template |-> t]

\* HashMap::insert: a later insertion under the same key overwrites
insert(map, k, v) == [n \in DOMAIN map \cup {k} |-> IF n = k THEN v ELSE map[n]]

\* HashMap::remove, the map that is left
without(map, k) == [n \in DOMAIN map \ {k} |-> map[n]]

\* name_of as it would be if the query were cut before the path
name_of_query_first(url) ==
    LET head == IF split_once(url, <<"?">>) # None
                THEN split_once(url, <<"?">>)[1][1] ELSE url
    IN  IF rsplit_once(head, <<"/">>) # None
        THEN rsplit_once(head, <<"/">>)[1][2] ELSE head

\* the key from_str derives for one line of the list file
name_of(url) ==
    LET tail == IF rsplit_once(url, <<"/">>) # None
                THEN rsplit_once(url, <<"/">>)[1][2] ELSE url
    IN  IF split_once(tail, <<"?">>) # None
        THEN split_once(tail, <<"?">>)[1][1] ELSE tail

RECURSIVE from_lines(_, _)
from_lines(lines, map) ==
    IF lines = <<>> THEN map
    ELSE from_lines(Tail(lines), insert(map, name_of(Head(lines)), Head(lines)))

from_str(arg) ==
    IF arg.is_file THEN List(from_lines(arg.lines, EmptyMap))
    ELSE Template(arg.s)

\* provide as it would be with HashMap::get in place of HashMap::remove
provide_keep(self, name) ==
    IF self.kind = "List"
    THEN IF name \in DOMAIN self.map
         THEN [ret |-> Some(self.map[name]), self |-> self]
         ELSE [ret |-> None, self |-> self]
    ELSE [ret |-> Some(replace(self.template, MARKER, name)), self |-> self]

\* Source::provide: the returned Option and the source afterwards
provide(self, name) ==
    IF self.kind = "List"
    THEN IF name \in DOMAIN self.map
         THEN [ret |-> Some(self.map[name]), self |-> List(without(self.map, name))]
         ELSE [ret |-> None, self |-> self]
    ELSE [ret |-> Some(replace(self.template, MARKER, name)), self |-> self]

\* remove as it would be if it left the map alone
remove_nothing(self, name) == self

\* Source::remove: the source afterwards
remove(self, name) ==
    IF self.kind = "List" THEN List(without(self.map, name)) ELSE self

\* into_rest as it would be if a Template yielded its pattern once
into_rest_pattern(self) ==
    IF self.kind = "List" THEN {<<n, self.map[n]>> : n \in DOMAIN self.map}
    ELSE {<<<<>>, self.template>>}

\* into_rest as it would be if the names left in a table were dropped
into_rest_none(self) == {}

\* Source::into_rest: the (name, url) pairs the iterator will yield
into_rest(self) ==
    IF self.kind = "List" THEN {<<n, self.map[n]>> : n \in DOMAIN self.map}
    ELSE {}

(***************************************************************************)
(* struct Counter, load_rec                                                *)
(***************************************************************************)
Counter == [good |-> 0, bad |-> 0, na |-> 0, error |-> 0]

\* the match on `status` in load_rec
count(c, status) ==
    IF status = GOOD THEN [c EXCEPT !.good = @ + 1]
    ELSE IF status = BAD THEN [c EXCEPT !.bad = @ + 1]
    ELSE IF status = NA THEN [c EXCEPT !.na = @ + 1]
    ELSE IF starts_with(status, ERROR) THEN [c EXCEPT !.error = @ + 1]
    ELSE c

\* BufRead::read_line: number of characters up to and including the first
\* newline, or all that is left
read_line(file) ==
    IF contains(file, <<NL>>) THEN Min(Occurrences(file, <<NL>>)) ELSE Len(file)

\* the line with its terminator removed, as load_rec trims it
trim(buf) ==
    IF ends_with(buf, NL)
    THEN IF ends_with(pop(buf), CR) THEN pop(pop(buf)) ELSE pop(buf)
    ELSE buf

\* load_line as it would be if a line without the separator were taken as
\* a bare name
load_line_bare(st, buf) ==
    IF split_once(buf, SEP) # None
    THEN LET name == split_once(buf, SEP)[1][1]
             status == split_once(buf, SEP)[1][2]
         IN  [res |-> st.res \cup {name},
              src |-> remove(st.src, name),
              counter |-> count(st.counter, status)]
    ELSE [res |-> st.res \cup {buf}, src |-> remove(st.src, buf), counter |-> st.counter]

\* one iteration of the while loop of load_rec on the trimmed line
load_line(st, buf) ==
    IF split_once(buf, SEP) # None
    THEN LET name == split_once(buf, SEP)[1][1]
             status == split_once(buf, SEP)[1][2]
         IN  [res |-> st.res \cup {name},
              src |-> remove(st.src, name),
              counter |-> count(st.counter, status)]
    ELSE st

RECURSIVE load_loop(_, _)
load_loop(file, st) ==
    IF read_line(file) = 0 THEN st
    ELSE load_loop(Drop(file, read_line(file)),
                   load_line(st, trim(Take(file, read_line(file)))))

load_rec(file, s, c) == load_loop(file, [res |-> {}, src |-> s, counter |-> c])

(***************************************************************************)
(* The comparison of one transfer (the write_function closure of main and  *)
(* the check that follows transfer.perform())                              *)
(***************************************************************************)
\* one call of the closure: `file` is the local content, st = [pos, good]
write_function(file, st, data) ==
    IF Len(file) - st.pos < Len(data)
    THEN [pos |-> Len(file), good |-> FALSE, ret |-> Len(data)]    \* read_exact fails
    ELSE [pos |-> st.pos + Len(data),
          good |-> st.good /\ data = SubSeq(file, st.pos + 1, st.pos + Len(data)),
          ret |-> Len(data)]

RECURSIVE transfer(_, _, _)
transfer(file, st, chunks) ==
    IF chunks = <<>> THEN st
    ELSE transfer(file, write_function(file, st, Head(chunks)), Tail(chunks))

\* verdict as it would be without the comparison of position and length
verdict_flag(file, st) == IF st.good THEN GOOD ELSE BAD

\* lines 207-219: the token written for a transfer that ended in state st
verdict(file, st) == IF st.good /\ st.pos = Len(file) THEN GOOD ELSE BAD

\* lines 186 and 207: `good` and the position of the freshly opened file
Opened == [pos |-> 0, good |-> TRUE, ret |-> 0]

verify(file, chunks) == verdict(file, transfer(file, Opened, chunks))

(***************************************************************************)
(* The environment of a run: file system, arguments, record file, network  *)
(***************************************************************************)
pA == <<"a">>
pDA == <<"d", "/", "a">>
pAB == <<"a", ":", " ", "b">>
pNF == <<"n">>
pUN == <<"u">>

Paths == {pA, pDA, pAB, pNF, pUN}

\* is_file as it would be if every path passed for a regular file
is_file_any(path) == TRUE

\* Path::is_file
is_file(path) == path # pNF

\* whether File::open(path) succeeds
can_open(path) == path # pUN

\* the bytes of the local file
content(path) == IF path = pA THEN <<1>> ELSE IF path = pDA THEN <<1, 0>> ELSE <<>>

\* Path::file_name
file_name(path) ==
    IF rsplit_once(path, <<"/">>) # None THEN rsplit_once(path, <<"/">>)[1][2] ELSE path

RECURSIVE SeqsUpTo(_, _)
SeqsUpTo(S, n) ==
    IF n = 0 THEN {<<>>}
    ELSE SeqsUpTo(S, n - 1) \cup
         {Append(q, x) : q \in {r \in SeqsUpTo(S, n - 1) : Len(r) = n - 1}, x \in S}

UrlLines == {<<"h", "/", "a">>, <<"h", "/", "u">>, pAB}

SrcArgs ==
    {[is_file |-> FALSE, lines |-> <<>>, s |-> <<"t", "/", "{", "}">>]} \cup
    {[is_file |-> TRUE, lines |-> l, s |-> <<>>] : l \in SeqsUpTo(UrlLines, MaxSrcLines)}

\* record files found at the first run: none yet (created empty), or left
\* by earlier use
InitRecs ==
    {<<>>,
     pUN \o <<NL>> \o pA \o SEP \o BAD \o <<CR, NL>>,
     pUN \o SEP \o ERROR \o SEP \o <<"E">> \o <<NL>> \o <<"z", ":", NL>>}

\* transport error texts
ErrMsgs == {<<"E">>}

\* the chunk sequences a completed transfer may deliver
Remotes == {<<>>, <<<<1>>>>, <<<<1>>, <<0>>>>, <<<<0>>>>}

\* final status codes and effective URLs of a completed probe of url
Codes == {199, 200, 299, 300}

EffUrls(url) == {url, <<"l">>}

NoHandle == [code |-> 0, eff_url |-> <<>>, err |-> None]

NoPrev == [completed |-> FALSE, crashed |-> FALSE, written |-> {}, known |-> {},
           cut |-> {}]

NoPar == [os |-> "none", files |-> <<>>, proc |-> <<>>]

NoCmp == [file |-> <<>>, chunks |-> <<>>, st |-> [pos |-> 0, good |-> TRUE, ret |-> 0],
          got |-> <<>>, data |-> <<>>, out |-> None]

(***************************************************************************)
(* main                                                                    *)
(***************************************************************************)
Fresh ==
    /\ pc = "start"
    /\ src = from_str(srcArg)
    /\ counter = Counter
    /\ rec_set = {}
    /\ idx = 1
    /\ rest = {}
    /\ handle = NoHandle
    /\ loaded = Counter
    /\ appended = <<>>
    /\ resolved = <<>>
    /\ compared = {}
    /\ probed = <<>>
    /\ partial = None

Init ==
    /\ FILE \in SeqsUpTo(Paths, MaxFiles) \ {<<>>}
    /\ srcArg \in SrcArgs
    /\ rec \in InitRecs
    /\ rec0 = rec
    /\ run = 1
    /\ prev = NoPrev
    /\ cmp = NoCmp
    /\ calls = <<>>
    /\ par = NoPar
    /\ Fresh

Env == <<FILE, srcArg, rec0, run, prev, cmp, calls, par>>

\* lines 135-140, failing: the record file cannot be opened or created
RecOpenFail ==
    /\ pc = "start"
    /\ pc' = "fatal_rec"
    /\ UNCHANGED <<Env, rec, src, counter, rec_set, idx, rest, handle, loaded,
                   appended, resolved, compared, probed, partial>>

\* lines 135-146: open the record file, replay it, print "loaded: ..."
Startup ==
    /\ pc = "start"
    /\ LET r == load_rec(rec, src, counter)
       IN  /\ rec_set' = r.res
           /\ src' = r.src
           /\ counter' = r.counter
           /\ loaded' = r.counter
    /\ pc' = "main"
    /\ UNCHANGED <<Env, rec, idx, rest, handle, appended, resolved, compared,
                   probed, partial>>

\* writeln as it would be if the outcome were written but not counted
writeln_uncounted(name, status, pass, pieces, k, after) ==
    /\ k < Len(pieces) => run < MaxRuns
    /\ rec' = rec \o Flatten(Take(pieces, k))
    /\ counter' = counter
    /\ IF k = Len(pieces)
       THEN /\ appended' = Append(appended, [name |-> name, status |-> status, pass |-> pass])
            /\ partial' = partial
            /\ pc' = pc
       ELSE /\ appended' = appended
            /\ partial' = Some(name)
            /\ pc' = "crashed"

\* writeln as it would be if the file were written at its start instead of
\* at the cursor left by load_rec
writeln_front(name, status, pass, pieces, k, after) ==
    /\ k < Len(pieces) => run < MaxRuns
    /\ rec' = Flatten(Take(pieces, k)) \o rec
    /\ IF k = Len(pieces)
       THEN /\ appended' = Append(appended, [name |-> name, status |-> status, pass |-> pass])
            /\ counter' = after
            /\ partial' = partial
            /\ pc' = pc
       ELSE /\ appended' = appended
            /\ counter' = counter
            /\ partial' = Some(name)
            /\ pc' = "crashed"

\* writeln!(rec, ...): write_fmt hands the line to File::write_all piece by
\* piece (arguments and literal text in turn); `k` pieces reach the file.
\* With k short of all pieces the process was interrupted inside writeln!.
\* `after` is the counter once the item is done.
writeln(name, status, pass, pieces, k, after) ==
    /\ k < Len(pieces) => run < MaxRuns     \* an interruption is followed by a rerun
    /\ rec' = rec \o Flatten(Take(pieces, k))
    /\ IF k = Len(pieces)
       THEN /\ appended' = Append(appended, [name |-> name, status |-> status, pass |-> pass])
            /\ counter' = after
            /\ partial' = partial
            /\ pc' = pc
       ELSE /\ appended' = appended
            /\ counter' = counter
            /\ partial' = Some(name)
            /\ pc' = "crashed"

InLoop == pc = "main" /\ idx <= Len(FILE)

\* lines 163-166: the path is not a regular file
NotAFile ==
    /\ InLoop
    /\ ~is_file(FILE[idx])
    /\ idx' = idx + 1
    /\ UNCHANGED <<Env, rec, pc, src, counter, rec_set, rest, handle, loaded,
                   appended, resolved, compared, probed, partial>>

\* lines 168-171: the name is in rec_set
Skip ==
    /\ InLoop
    /\ is_file(FILE[idx])
    /\ file_name(FILE[idx]) \in rec_set
    /\ idx' = idx + 1
    /\ UNCHANGED <<Env, rec, pc, src, counter, rec_set, rest, handle, loaded,
                   appended, resolved, compared, probed, partial>>

\* the item the loop is at goes on to src.provide
Attempt == InLoop /\ is_file(FILE[idx]) /\ file_name(FILE[idx]) \notin rec_set

\* lines 175-182: src.provide(name) is None
MissingSource ==
    /\ Attempt
    /\ LET name == file_name(FILE[idx])
           p == provide(src, name)
       IN  /\ p.ret = None
           /\ src' = p.self
           /\ resolved' = Append(resolved, [name |-> name, url |-> p.ret])
           /\ \E k \in 1..2 :
                writeln(name, ERROR \o SEP \o MISSING_SOURCE, "main",
                        <<name, SEP \o ERROR \o SEP \o MISSING_SOURCE \o <<NL>>>>, k,
                        [counter EXCEPT !.error = @ + 1])
    /\ idx' = idx + 1
    /\ UNCHANGED <<Env, rec_set, rest, handle, loaded, compared, probed>>

\* line 185 failing: File::open(path)? ends main with the error
OpenFail ==
    /\ Attempt
    /\ LET name == file_name(FILE[idx])
           p == provide(src, name)
       IN  /\ p.ret # None
           /\ ~can_open(FILE[idx])
           /\ src' = p.self
           /\ resolved' = Append(resolved, [name |-> name, url |-> p.ret])
    /\ pc' = "fatal_open"
    /\ UNCHANGED <<Env, rec, counter, rec_set, idx, rest, handle, loaded,
                   appended, compared, probed, partial>>

\* lines 185-204: transfer.perform() fails with error text e
TransferError ==
    /\ Attempt
    /\ LET name == file_name(FILE[idx])
           p == provide(src, name)
       IN  /\ p.ret # None
           /\ can_open(FILE[idx])
           /\ src' = p.self
           /\ resolved' = Append(resolved, [name |-> name, url |-> p.ret])
           /\ compared' = compared \cup {name}
           /\ \E e \in ErrMsgs :
                /\ handle' = [code |-> 0, eff_url |-> p.ret[1], err |-> Some(e)]
                /\ \E k \in 1..4 :
                     writeln(name, ERROR \o SEP \o e, "main",
                             <<name, SEP \o ERROR \o SEP, e, <<NL>>>>, k,
                             [counter EXCEPT !.error = @ + 1])
    /\ idx' = idx + 1
    /\ UNCHANGED <<Env, rec_set, rest, loaded, probed>>

\* lines 185-226: the transfer completes, delivering `chunks`
Compare ==
    /\ Attempt
    /\ LET name == file_name(FILE[idx])
           p == provide(src, name)
       IN  /\ p.ret # None
           /\ can_open(FILE[idx])
           /\ src' = p.self
           /\ resolved' = Append(resolved, [name |-> name, url |-> p.ret])
           /\ compared' = compared \cup {name}
           /\ handle' = [code |-> 200, eff_url |-> p.ret[1], err |-> None]
           /\ \E chunks \in Remotes :
                LET good == verify(content(FILE[idx]), chunks)
                IN  \E k \in 1..4 :
                      writeln(name, good, "main", <<name, SEP, good, <<NL>>>>, k,
                              IF good = GOOD THEN [counter EXCEPT !.good = @ + 1]
                              ELSE [counter EXCEPT !.bad = @ + 1])
    /\ idx' = idx + 1
    /\ UNCHANGED <<Env, rec_set, rest, loaded, probed>>

\* lines 230-232: the loop over FILE is over; src.into_rest()
EndMain ==
    /\ pc = "main"
    /\ idx > Len(FILE)
    /\ rest' = into_rest(src)
    /\ pc' = "probe"
    /\ UNCHANGED <<Env, rec, src, counter, rec_set, idx, handle, loaded,
                   appended, resolved, compared, probed, partial>>

\* lines 232-242: handle.perform() fails with error text e
ProbeError ==
    /\ pc = "probe"
    /\ \E item \in rest :
         /\ rest' = rest \ {item}
         /\ probed' = Append(probed, item[1])
         /\ \E e \in ErrMsgs :
              /\ handle' = [code |-> 0, eff_url |-> item[2], err |-> Some(e)]
              /\ \E k \in 1..4 :
                   writeln(item[1], ERROR \o SEP \o e, "probe",
                           <<item[1], SEP \o ERROR \o SEP, e, <<NL>>>>, k,
                           [counter EXCEPT !.error = @ + 1])
    /\ UNCHANGED <<Env, src, rec_set, idx, loaded, resolved, compared>>

\* available as it would be with the lower bound off by one
available_above(code, eff_url, name) == code > 200 /\ code < 300 /\ contains(eff_url, name)

\* line 246: the condition under which a probed name counts as available
available(code, eff_url, name) == code >= 200 /\ code < 300 /\ contains(eff_url, name)

\* lines 232-254: the probe completes with a status code and effective URL
Probe ==
    /\ pc = "probe"
    /\ \E item \in rest :
         /\ rest' = rest \ {item}
         /\ probed' = Append(probed, item[1])
         /\ \E code \in Codes, eff_url \in EffUrls(item[2]) :
              /\ handle' = [code |-> code, eff_url |-> eff_url, err |-> None]
              /\ IF available(code, eff_url, item[1])
                 THEN \E k \in 1..2 :
                        writeln(item[1], ERROR \o SEP \o AVAILABLE, "probe",
                                <<item[1], SEP \o ERROR \o SEP \o AVAILABLE \o <<NL>>>>, k,
                                [counter EXCEPT !.error = @ + 1])
                 ELSE \E k \in 1..2 :
                        writeln(item[1], NA, "probe",
                                <<item[1], SEP \o NA \o <<NL>>>>, k,
                                [counter EXCEPT !.na = @ + 1])
    /\ UNCHANGED <<Env, src, rec_set, idx, loaded, resolved, compared>>

\* lines 257-262: print "finished: ..." and return
Finish ==
    /\ pc = "probe"
    /\ rest = {}
    /\ pc' = "done"
    /\ UNCHANGED <<Env, rec, src, counter, rec_set, idx, rest, handle, loaded,
                   appended, resolved, compared, probed, partial>>

\* the process is interrupted between two writes to the record file
Crash ==
    /\ pc \in {"main", "probe"}
    /\ run < MaxRuns
    /\ pc' = "crashed"
    /\ UNCHANGED <<Env, rec, src, counter, rec_set, idx, rest, handle, loaded,
                   appended, resolved, compared, probed, partial>>

Names(recs) == {recs[i].name : i \in DOMAIN recs}

\* the tool is started again with the same arguments and record file
Rerun ==
    /\ pc \in {"done", "crashed", "fatal_rec", "fatal_open"}
    /\ run < MaxRuns
    /\ run' = run + 1
    /\ prev' = [completed |-> pc = "done", crashed |-> pc = "crashed",
                written |-> Names(appended), known |-> rec_set,
                cut |-> {partial[i] : i \in DOMAIN partial}]
    /\ pc' = "start"
    /\ src' = from_str(srcArg)
    /\ counter' = Counter
    /\ rec_set' = {}
    /\ idx' = 1
    /\ rest' = {}
    /\ handle' = NoHandle
    /\ loaded' = Counter
    /\ appended' = <<>>
    /\ resolved' = <<>>
    /\ compared' = {}
    /\ probed' = <<>>
    /\ partial' = None
    /\ rec0' = rec
    /\ UNCHANGED <<FILE, srcArg, rec, cmp, calls, par>>

Next ==
    \/ RecOpenFail
    \/ Startup
    \/ NotAFile
    \/ Skip
    \/ MissingSource
    \/ OpenFail
    \/ TransferError
    \/ Compare
    \/ EndMain
    \/ ProbeError
    \/ Probe
    \/ Finish
    \/ Crash
    \/ Rerun

Spec == Init /\ [][Next]_vars

\* the steps of the program itself: main is one sequential thread whose
\* calls all return, so a step that stays possible is eventually taken
Running ==
    \/ RecOpenFail
    \/ Startup
    \/ NotAFile
    \/ Skip
    \/ MissingSource
    \/ OpenFail
    \/ TransferError
    \/ Compare
    \/ EndMain
    \/ ProbeError
    \/ Probe
    \/ Finish

SpecFair == Spec /\ WF_vars(Running)

(***************************************************************************)
(* One transfer, chunk by chunk: the write_function closure is called once *)
(* per chunk, then transfer.perform() returns.                             *)
(***************************************************************************)
Bytes == {0, 1}

Idle == <<FILE, srcArg, rec, rec0, run, pc, src, counter, rec_set, idx, rest, handle,
          loaded, appended, resolved, compared, probed, partial, prev, par>>

IdleInit ==
    /\ FILE = <<>>
    /\ srcArg = [is_file |-> FALSE, lines |-> <<>>, s |-> <<>>]
    /\ rec = <<>>
    /\ rec0 = <<>>
    /\ run = 0
    /\ prev = NoPrev
    /\ par = NoPar
    /\ Fresh

InitCmp ==
    /\ IdleInit
    /\ calls = <<>>
    /\ \E file \in SeqsUpTo(Bytes, MaxLen), chunks \in SeqsUpTo(SeqsUpTo(Bytes, BufLen), MaxChunks) :
         cmp = [file |-> file, chunks |-> chunks, st |-> Opened,
                got |-> <<>>, data |-> <<>>, out |-> None]

\* a write error of curl: the closure returned a length other than the chunk's
WRITE_ERROR == <<"W">>

\* lines 192-198: curl hands the next chunk to the closure, and gives up the
\* transfer when the closure does not return the chunk's length
Chunk ==
    /\ cmp.out = None
    /\ cmp.chunks # <<>>
    /\ LET data == Head(cmp.chunks)
           st == write_function(cmp.file, cmp.st, data)
       IN  cmp' = [cmp EXCEPT !.st = st,
                              !.data = data,
                              !.got = @ \o data,
                              !.chunks = Tail(@),
                              !.out = IF st.ret = Len(data) THEN None
                                      ELSE Some(ERROR \o SEP \o WRITE_ERROR)]
    /\ UNCHANGED <<Idle, calls>>

\* lines 205-219: perform() returned Ok
Complete ==
    /\ cmp.out = None
    /\ cmp.chunks = <<>>
    /\ cmp' = [cmp EXCEPT !.out = Some(verdict(cmp.file, cmp.st))]
    /\ UNCHANGED <<Idle, calls>>

\* lines 201-204: perform() returned Err(e)
Fail ==
    /\ cmp.out = None
    /\ \E e \in ErrMsgs : cmp' = [cmp EXCEPT !.out = Some(ERROR \o SEP \o e)]
    /\ UNCHANGED <<Idle, calls>>

NextCmp ==
    \/ Chunk
    \/ Complete
    \/ Fail

SpecCmp == InitCmp /\ [][NextCmp]_vars

(***************************************************************************)
(* A Source under arbitrary provide and remove calls                       *)
(***************************************************************************)
SrcUrlLines == UrlLines \cup {<<"g", "/", "a", "?", "q">>, <<"h", "/">>,
                            <<"q", "?", "/", "u">>}

SrcNames == {pA, pUN, pAB, <<"c">>, <<>>}

InitSrc ==
    /\ FILE = <<>>
    /\ srcArg \in {[is_file |-> FALSE, lines |-> <<>>, s |-> <<"t", "/", "{", "}">>]} \cup
                  {[is_file |-> TRUE, lines |-> l, s |-> <<>>] : l \in SeqsUpTo(SrcUrlLines, MaxSrcLines)}
    /\ rec = <<>>
    /\ rec0 = <<>>
    /\ run = 0
    /\ prev = NoPrev
    /\ cmp = NoCmp
    /\ calls = <<>>
    /\ par = NoPar
    /\ Fresh

\* src.provide(name)
Provide ==
    /\ Len(calls) < MaxCalls
    /\ \E name \in SrcNames :
         /\ src' = provide(src, name).self
         /\ calls' = Append(calls, [op |-> "provide", name |-> name,
                                    ret |-> provide(src, name).ret, before |-> src])
    /\ UNCHANGED <<FILE, srcArg, rec, rec0, run, pc, counter, rec_set, idx, rest, handle,
                   loaded, appended, resolved, compared, probed, partial, prev, cmp, par>>

\* src.remove(name)
Remove ==
    /\ Len(calls) < MaxCalls
    /\ \E name \in SrcNames :
         /\ src' = remove(src, name)
         /\ calls' = Append(calls, [op |-> "remove", name |-> name,
                                    ret |-> None, before |-> src])
    /\ UNCHANGED <<FILE, srcArg, rec, rec0, run, pc, counter, rec_set, idx, rest, handle,
                   loaded, appended, resolved, compared, probed, partial, prev, cmp, par>>

NextSrc ==
    \/ Provide
    \/ Remove

SpecSrc == InitSrc /\ [][NextSrc]_vars

(***************************************************************************)
(* Two processes started on the same record file.  Each process has its    *)
(* own file handle, hence its own cursor, skip set and position in its     *)
(* arguments; `rec` is the one file both handles refer to.  The source of  *)
(* both is a template, so every name is provided, and each transfer ends   *)
(* with `good` or `bad`.                                                   *)
(***************************************************************************)
Procs == {1, 2}

\* the number of arguments of each of the two processes
MaxParFiles == 1

ParNames == {pA, <<"b">>}

ParRecs == {<<>>, pA \o SEP \o GOOD \o <<NL>>}

\* lines 132-133: share_mode(1) is compiled in under cfg(windows) only
Platforms == {"windows", "unix"}

NoProc == [pc |-> "start", files |-> <<>>, pos |-> 0, rec_set |-> {}, idx |-> 1,
           pending |-> <<>>, wrote |-> <<>>]

\* the processes that hold a handle on the record file
Holders == {p \in Procs : par.proc[p].pc \in {"open", "main"}}

\* File::write at the cursor of a handle opened without append(true)
write_at(file, pos, data) == Take(file, pos) \o data \o Drop(file, pos + Len(data))

ParIdle == <<FILE, srcArg, rec0, run, pc, src, counter, rec_set, idx, rest, handle,
             loaded, appended, resolved, compared, probed, partial, prev, cmp, calls>>

InitPar ==
    /\ FILE = <<>>
    /\ srcArg = [is_file |-> FALSE, lines |-> <<>>, s |-> <<"t", "/", "{", "}">>]
    /\ rec0 = <<>>
    /\ run = 0
    /\ prev = NoPrev
    /\ Fresh
    /\ cmp = NoCmp
    /\ calls = <<>>
    /\ rec \in ParRecs
    /\ \E os \in Platforms, f1, f2 \in SeqsUpTo(ParNames, MaxParFiles) \ {<<>>} :
         par = [os |-> os,
                proc |-> <<[NoProc EXCEPT !.files = f1], [NoProc EXCEPT !.files = f2]>>]

\* lines 130-140: options.open(REC_PATH) succeeds
ParOpen(p) ==
    /\ par.proc[p].pc = "start"
    /\ par.os = "windows" => Holders = {}
    /\ par' = [par EXCEPT !.proc[p].pc = "open"]
    /\ UNCHANGED <<ParIdle, rec>>

\* lines 130-140: options.open(REC_PATH) fails with a sharing violation and
\* main returns the error
ParOpenFail(p) ==
    /\ par.proc[p].pc = "start"
    /\ par.os = "windows"
    /\ Holders # {}
    /\ par' = [par EXCEPT !.proc[p].pc = "fatal"]
    /\ UNCHANGED <<ParIdle, rec>>

\* line 141: load_rec reads the file to its end
ParLoad(p) ==
    /\ par.proc[p].pc = "open"
    /\ par' = [par EXCEPT !.proc[p].pc = "main",
                          !.proc[p].rec_set = load_rec(rec, from_str(srcArg), Counter).res,
                          !.proc[p].pos = Len(rec)]
    /\ UNCHANGED <<ParIdle, rec>>

\* lines 161-226 up to the writeln!: the item is skipped, or its transfer
\* ends and the pieces of its line are about to be written
ParItem(p) ==
    LET me == par.proc[p] IN
    /\ me.pc = "main"
    /\ me.pending = <<>>
    /\ me.idx <= Len(me.files)
    /\ IF me.files[me.idx] \in me.rec_set
       THEN par' = [par EXCEPT !.proc[p].idx = me.idx + 1]
       ELSE \E status \in {GOOD, BAD} :
              par' = [par EXCEPT
                        !.proc[p].pending = <<me.files[me.idx], SEP, status, <<NL>>>>,
                        !.proc[p].wrote = Append(me.wrote,
                            [at |-> me.pos,
                             text |-> me.files[me.idx] \o SEP \o status \o <<NL>>])]
    /\ UNCHANGED <<ParIdle, rec>>

\* line 226: one write_all of the writeln!; after the last one the loop
\* moves to the next argument
ParWrite(p) ==
    LET me == par.proc[p] IN
    /\ me.pc = "main"
    /\ me.pending # <<>>
    /\ rec' = write_at(rec, me.pos, Head(me.pending))
    /\ par' = [par EXCEPT !.proc[p].pos = me.pos + Len(Head(me.pending)),
                          !.proc[p].pending = Tail(me.pending),
                          !.proc[p].idx = IF Len(me.pending) = 1 THEN me.idx + 1 ELSE me.idx]
    /\ UNCHANGED ParIdle

\* lines 257-262: main returns and the handle is closed
ParFinish(p) ==
    LET me == par.proc[p] IN
    /\ me.pc = "main"
    /\ me.pending = <<>>
    /\ me.idx > Len(me.files)
    /\ par' = [par EXCEPT !.proc[p].pc = "done"]
    /\ UNCHANGED <<ParIdle, rec>>

NextPar ==
    \/ \E p \in Procs : ParOpen(p)
    \/ \E p \in Procs : ParOpenFail(p)
    \/ \E p \in Procs : ParLoad(p)
    \/ \E p \in Procs : ParItem(p)
    \/ \E p \in Procs : ParWrite(p)
    \/ \E p \in Procs : ParFinish(p)

SpecPar == InitPar /\ [][NextPar]_vars

(***************************************************************************)
(* Properties                                                              *)
(***************************************************************************)
Range(q) == {q[i] : i \in DOMAIN q}

\* the names this run has handed to provide, transferred for, probed or
\* begun to write a line for
Touched == Names(resolved) \cup compared \cup Range(probed) \cup Names(appended)
           \cup Range(partial)

\* the table of a list source as built at startup, before replay
Table0 == from_str(srcArg).map

\* C1: a name that replay put in the skip set is, during this run, never
\* resolved, never compared, never probed, and no ledger line (complete or
\* cut short) is written for it.
C1_SkipSetNeverReprocessed == \A n \in rec_set : n \notin Touched

\* C1 witness: a second run is over; an input file's name was written by the
\* first run, is in the skip set and was a key of the source table, and the
\* run has processed another item.
C1_Witness ==
    /\ run = 2
    /\ pc = "done"
    /\ srcArg.is_file
    /\ \E i \in DOMAIN FILE :
         /\ is_file(FILE[i])
         /\ file_name(FILE[i]) \in rec_set \cap prev.written \cap DOMAIN Table0
    /\ appended # <<>>

\* C2 (as claimed): after a completed run, a second run with the same inputs
\* appends no line for any name of the first run's ledger, and finishes
\* with the counters it loaded.
C2_IdempotentResume ==
    (run > 1 /\ prev.completed) =>
        /\ \A n \in prev.written \cup prev.known : n \notin Names(appended)
        /\ pc = "done" => counter = loaded

\* C3 (as claimed): a run appends at most one ledger line for any name.
C3_OneLinePerName ==
    \A i, j \in DOMAIN appended : i # j => appended[i].name # appended[j].name

\* C4 (as claimed): after an interrupted run, the next run has every item
\* whose append completed in its skip set and does not attempt it again,
\* and has every item whose append was cut short outside its skip set and
\* attempts it again.
C4_CrashResume ==
    (run > 1 /\ prev.crashed /\ pc \in {"main", "probe", "done"}) =>
        /\ \A n \in prev.written : n \in rec_set /\ n \notin Touched
        /\ \A n \in prev.cut \ (prev.written \cup prev.known) :
             /\ n \notin rec_set
             /\ pc = "done" => n \in Touched

IsPrefix(p, q) == Len(p) <= Len(q) /\ Take(q, Len(p)) = p

\* C5: a transfer that completes without a transport failure is recorded
\* good exactly when the delivered bytes equal the local bytes and bad
\* otherwise, however the bytes are cut into chunks; the closure's flag is
\* false as soon as the delivered bytes stop being a prefix of the local
\* file and stays false; the closure always accepts the whole chunk, so a
\* mismatch neither aborts the transfer nor becomes an error outcome.
C5_ComparatorResult ==
    /\ cmp.st.good <=> IsPrefix(cmp.got, cmp.file)
    /\ cmp.st.ret = Len(cmp.data)
    /\ cmp.out # None =>
         \/ /\ cmp.chunks = <<>>
            /\ cmp.out = IF cmp.got = cmp.file THEN Some(GOOD) ELSE Some(BAD)
         \/ \E e \in ErrMsgs : cmp.out = Some(ERROR \o SEP \o e)

\* C5 witness: a completed transfer in two chunks whose bytes are a proper,
\* non-empty prefix of the local file, recorded bad.
C5_Witness ==
    /\ cmp.out = Some(BAD)
    /\ cmp.got # <<>>
    /\ cmp.got # cmp.file
    /\ IsPrefix(cmp.got, cmp.file)
    /\ cmp.data # cmp.got

\* C6: a probe that completes without a transport failure is recorded
\* "error: available" exactly when the final status code is in 200..299 and
\* the final effective URL contains the name, and "n/a" in every other case.
C6_ProbeClassification ==
    (pc \in {"probe", "done"} /\ probed # <<>> /\ handle.err = None) =>
        LET name == probed[Len(probed)]
            line == appended[Len(appended)]
        IN  /\ line.name = name
            /\ line.pass = "probe"
            /\ line.status =
                 IF handle.code \in 200..299 /\ contains(handle.eff_url, name)
                 THEN ERROR \o SEP \o AVAILABLE
                 ELSE NA

\* C6 witness: a probe ended with a success status at a URL that lacks the
\* name and was recorded n/a.
C6_Witness ==
    /\ pc = "done"
    /\ probed # <<>>
    /\ handle.err = None
    /\ handle.code = 200
    /\ ~contains(handle.eff_url, probed[Len(probed)])
    /\ appended[Len(appended)].status = NA

\* C7: for a Table source, under any sequence of provide and remove calls,
\* a provide of a name that an earlier provide or remove call named returns
\* nothing, and the first call on a name of the table, if a provide,
\* returns its URL.
C7_TableAtMostOnce ==
    (~srcArg.is_file) \/
    \A j \in DOMAIN calls :
        calls[j].op = "provide" =>
            IF \E i \in 1..(j - 1) : calls[i].name = calls[j].name
            THEN calls[j].ret = None
            ELSE calls[j].ret = IF calls[j].name \in DOMAIN Table0
                                THEN Some(Table0[calls[j].name]) ELSE None

\* C7 witness: a name of the table was provided twice, and then another name of
\* the table was provided.
C7_Witness ==
    /\ srcArg.is_file
    /\ Len(calls) = 3
    /\ calls[1].op = "provide" /\ calls[1].ret # None
    /\ calls[2].op = "provide" /\ calls[2].name = calls[1].name /\ calls[2].ret = None
    /\ calls[3].op = "provide" /\ calls[3].name # calls[1].name
    /\ calls[3].ret # None

\* C8: for a Template source, every provide returns a URL, the source never
\* changes, nothing is left for the probe pass, and so the run records no
\* "error: missing source" and probes nothing.
C8_TemplateInexhaustible ==
    (~srcArg.is_file) =>
        /\ src = Template(srcArg.s)
        /\ \A i \in DOMAIN resolved :
             resolved[i].url = Some(replace(srcArg.s, MARKER, resolved[i].name))
        /\ rest = {}
        /\ probed = <<>>
        /\ \A i \in DOMAIN appended :
             /\ appended[i].pass = "main"
             /\ appended[i].status # ERROR \o SEP \o MISSING_SOURCE

\* C8 witness: a Template run is over in which replay called remove and the
\* main pass called provide twice with the same name.
C8_Witness ==
    /\ ~srcArg.is_file
    /\ pc = "done"
    /\ rec_set # {}
    /\ Len(resolved) = 2
    /\ resolved[1].name = resolved[2].name

\* C9 (as claimed): when a run ends with a fatal error, it has consumed no
\* source entry and appended no ledger line.
C9_FatalBeforeItems ==
    pc \in {"fatal_rec", "fatal_open"} =>
        /\ appended = <<>>
        /\ \A i \in DOMAIN resolved : resolved[i].name \notin DOMAIN Table0

\* C9 (amended): a failure to open the record file ends the run before
\* anything is replayed, resolved or appended.  A failure to open an input
\* file ends the run at that file's item, after its source entry has been
\* consumed: no line is written and no counter changed for that item and
\* nothing is probed, while the lines of the items before it stay appended.
C9_FatalAtItem ==
    /\ pc = "fatal_rec" =>
         /\ appended = <<>> /\ resolved = <<>> /\ rec_set = {}
         /\ counter = Counter /\ rec = rec0
    /\ pc = "fatal_open" =>
         LET name == file_name(FILE[idx])
         IN  /\ is_file(FILE[idx]) /\ ~can_open(FILE[idx])
             /\ resolved[Len(resolved)].name = name
             /\ resolved[Len(resolved)].url # None
             /\ name \notin DOMAIN src.map
             /\ Len(appended) = Len(resolved) - 1
             /\ Len(appended) <= idx - 1
             /\ counter.good + counter.bad + counter.na + counter.error =
                  loaded.good + loaded.bad + loaded.na + loaded.error + Len(appended)
             /\ probed = <<>>
             /\ partial = None

\* C9 witness: the open of the second input file failed after the first
\* item's line was appended and the second item's table entry was consumed.
C9_Witness ==
    /\ pc = "fatal_open"
    /\ Len(appended) = 1
    /\ file_name(FILE[idx]) \in DOMAIN Table0

RECURSIVE LinesOf(_)
\* the lines of a record file, trimmed as load_rec trims them
LinesOf(file) ==
    IF file = <<>> THEN <<>>
    ELSE <<trim(Take(file, read_line(file)))>> \o LinesOf(Drop(file, read_line(file)))

\* C10: when replay is over, the skip set, the counters and the names
\* removed from the source table come from the lines that contain ": "
\* alone; a line without the separator adds no name, removes nothing,
\* counts nothing, and the lines after it are replayed.
C10_MalformedLineTolerance ==
    (pc = "main" /\ idx = 1) =>
        LET lines == LinesOf(rec0)
            wf == {i \in DOMAIN lines : contains(lines[i], SEP)}
            names == {split_once(lines[i], SEP)[1][1] : i \in wf}
            statuses == [i \in wf |-> split_once(lines[i], SEP)[1][2]]
        IN  /\ rec_set = names
            /\ counter.good = Cardinality({i \in wf : statuses[i] = GOOD})
            /\ counter.bad = Cardinality({i \in wf : statuses[i] = BAD})
            /\ counter.na = Cardinality({i \in wf : statuses[i] = NA})
            /\ counter.error = Cardinality({i \in wf : starts_with(statuses[i], ERROR)})
            /\ loaded = counter
            /\ src = IF srcArg.is_file
                     THEN List([n \in DOMAIN Table0 \ names |-> Table0[n]])
                     ELSE Template(srcArg.s)

\* C10 witness: replay is over on a record file whose first line lacks the
\* separator and spells a key of the source table, which is still in the
\* table and not in the skip set, while the line after it was replayed.
C10_Witness ==
    /\ pc = "main" /\ idx = 1
    /\ Len(LinesOf(rec0)) = 2
    /\ LinesOf(rec0)[1] = pUN
    /\ pUN \in DOMAIN src.map
    /\ pUN \notin rec_set
    /\ pA \in rec_set
    /\ loaded.bad = 1

\* C11: while the main loop is at an input path that is not a regular file,
\* no step appends to the ledger, changes a counter or consumes an entry of
\* the source; the step the run takes moves the loop to the next input.
C11_NotAFileFrame ==
    [][(InLoop /\ FILE[idx] = pNF) =>
          /\ rec' = rec
          /\ appended' = appended
          /\ counter' = counter
          /\ src' = src
          /\ resolved' = resolved
          /\ pc' \in {"main", "crashed"}
          /\ pc' = "main" => idx' = idx + 1]_vars

\* C11 witness: a run with a list source is over whose first input was not
\* a regular file and whose second input got its line.
C11_Witness ==
    /\ pc = "done"
    /\ Len(FILE) = 2
    /\ FILE[1] = pNF
    /\ srcArg.is_file
    /\ Names(appended) = {file_name(FILE[2])}
    /\ counter.good = loaded.good + 1

\* the name of a URL line by the rule of reference: what follows the last
\* '/' of the whole line (the whole line if it has none), cut before its
\* first '?'
RefName(url) ==
    LET slashes == {i \in DOMAIN url : url[i] = "/"}
        from == IF slashes = {} THEN 1 ELSE Max(slashes) + 1
        marks == {i \in from..Len(url) : url[i] = "?"}
        to == IF marks = {} THEN Len(url) ELSE Min(marks) - 1
    IN  SubSeq(url, from, to)

\* C12: the keys of a Table as built are the names the rule of reference
\* gives for its lines, and each key holds the last line that derives it.
C12_NameDerivation ==
    (srcArg.is_file /\ calls = <<>>) =>
        /\ DOMAIN src.map = {RefName(srcArg.lines[i]) : i \in DOMAIN srcArg.lines}
        /\ \A n \in DOMAIN src.map :
             src.map[n] = srcArg.lines[Max({i \in DOMAIN srcArg.lines :
                                              RefName(srcArg.lines[i]) = n})]

\* C12 witness: a Table built from two lines that derive the same name, the
\* later one with a query; the key holds the later line.
C12_Witness ==
    /\ srcArg.is_file
    /\ calls = <<>>
    /\ srcArg.lines = <<<<"h", "/", "a">>, <<"g", "/", "a", "?", "q">>>>
    /\ DOMAIN src.map = {pA}
    /\ src.map[pA] = <<"g", "/", "a", "?", "q">>

\* C13: two processes are never both in the middle of writing a line to
\* the record file, and every line a process has written in full is still
\* in the file at the place where that process wrote it
C13_CrossRunExclusion ==
    /\ Cardinality({p \in DOMAIN par.proc :
                      par.proc[p].pending # <<>> /\ Len(par.proc[p].pending) < 4}) <= 1
    /\ \A p \in DOMAIN par.proc :
         \A i \in DOMAIN par.proc[p].wrote :
           LET w == par.proc[p].wrote[i] IN
           (i < Len(par.proc[p].wrote) \/ par.proc[p].pending = <<>>) =>
               SubSeq(rec, w.at + 1, w.at + Len(w.text)) = w.text

\* the lines this run appended in the loop over FILE, and in the probe loop
MainLines == SelectSeq(appended, LAMBDA r : r.pass = "main")

ProbeLines == SelectSeq(appended, LAMBDA r : r.pass = "probe")

\* the names of the first n arguments that are regular files and are not in
\* the skip set, in the order of the arguments
AttemptedNames(n) ==
    LET at == SelectSeq([i \in 1..n |-> i],
                        LAMBDA i : is_file(FILE[i]) /\ file_name(FILE[i]) \notin rec_set)
    IN  [i \in DOMAIN at |-> file_name(FILE[at[i]])]

\* the text of a record file line
Rendered(r) == r.name \o SEP \o r.status \o <<NL>>

\* C14: the lines a run appends are the lines of the loop over FILE followed
\* by the lines of the probe loop; while the loop over FILE is at argument
\* idx, the lines appended are exactly those of the earlier arguments that
\* are files and not in the skip set, in argument order; the probe lines
\* follow in the order the names were probed; and the record file is its
\* startup content followed by these lines in this order
C14_AppendOrder ==
    /\ appended = MainLines \o ProbeLines
    /\ pc \in {"main", "fatal_open"} =>
         /\ [i \in DOMAIN MainLines |-> MainLines[i].name] = AttemptedNames(idx - 1)
         /\ ProbeLines = <<>>
    /\ pc \in {"probe", "done"} =>
         /\ [i \in DOMAIN MainLines |-> MainLines[i].name] = AttemptedNames(Len(FILE))
         /\ [i \in DOMAIN ProbeLines |-> ProbeLines[i].name] = probed
    /\ pc \in {"main", "probe", "done", "fatal_open"} =>
         rec = rec0 \o Flatten([i \in DOMAIN appended |-> Rendered(appended[i])])

\* a finished run that passed over an argument, appended a line in the loop
\* over FILE and then a line in the probe loop
C14_Witness ==
    /\ pc = "done"
    /\ \E i \in DOMAIN FILE : ~is_file(FILE[i]) \/ file_name(FILE[i]) \in rec_set
    /\ MainLines # <<>>
    /\ ProbeLines # <<>>

\* a step in which src.provide returned None for the name of the argument
MissingSourceStep ==
    /\ Len(resolved') = Len(resolved) + 1
    /\ resolved'[Len(resolved')].url = None

\* a step in which the transfer for the argument returned an error
TransferFailureStep ==
    /\ Len(resolved') = Len(resolved) + 1
    /\ resolved'[Len(resolved')].url # None
    /\ pc' # "fatal_open"
    /\ handle'.err # None

\* a step in which the probe of a remaining name returned an error
ProbeFailureStep ==
    /\ Len(probed') = Len(probed) + 1
    /\ handle'.err # None

\* a line with an error status was appended in this run
HasFailure == \E i \in DOMAIN appended : starts_with(appended[i].status, ERROR)

\* C15: a step in which a name has no source, or in which the transfer or
\* the probe for it fails, and during which the process is not interrupted,
\* appends exactly the line "<name>: error: <message>" to the record file,
\* adds one to the error counter and leaves the other counters alone,
\* starts no transfer when the source is missing, and leaves the run in the
\* same loop, one item further on; and a run that has appended an error
\* line, and whose arguments can all be opened, goes on to print the
\* summary unless the process is interrupted
C15_PerItemFailure ==
    /\ [][((MissingSourceStep \/ TransferFailureStep \/ ProbeFailureStep) /\ pc' # "crashed") =>
            LET name == IF ProbeFailureStep THEN probed'[Len(probed')]
                        ELSE resolved'[Len(resolved')].name
                message == IF MissingSourceStep THEN MISSING_SOURCE ELSE handle'.err[1]
            IN  /\ rec' = rec \o name \o SEP \o ERROR \o SEP \o message \o <<NL>>
                /\ appended' = Append(appended,
                       [name |-> name, status |-> ERROR \o SEP \o message,
                        pass |-> IF ProbeFailureStep THEN "probe" ELSE "main"])
                /\ counter' = [counter EXCEPT !.error = @ + 1]
                /\ MissingSourceStep => compared' = compared /\ handle' = handle
                /\ pc' = pc
                /\ pc = "main" => idx' = idx + 1 /\ idx <= Len(FILE)
                /\ pc = "probe" => rest' # rest /\ rest' \subseteq rest]_vars
    /\ []((HasFailure /\ pUN \notin Range(FILE)) => <>(pc \in {"done", "crashed"}))

\* a run that met a failed transfer, a missing source and a failed probe,
\* and finished with three error lines
C15_Witness ==
    /\ pc = "done"
    /\ Len(appended) = 3
    /\ appended[1].status = ERROR \o SEP \o <<"E">>
    /\ appended[2].status = ERROR \o SEP \o MISSING_SOURCE
    /\ appended[3].status = ERROR \o SEP \o <<"E">>
    /\ appended[3].pass = "probe"
    /\ counter.error = loaded.error + 3
    /\ counter.good = loaded.good /\ counter.bad = loaded.bad /\ counter.na = loaded.na

\* C16: once the record file is open, the lines it had at startup are a
\* prefix of the lines it has now, its startup content is untouched, and
\* what the run has added to it is made of complete lines
C16_AppendOnly ==
    pc \notin {"start", "fatal_rec"} =>
        /\ IsPrefix(rec0, rec)
        /\ IsPrefix(LinesOf(rec0), LinesOf(rec))
        /\ rec # rec0 => ends_with(rec, NL)

\* the number of lines this run appended whose status satisfies `kind`
Appended(kind(_)) == Cardinality({i \in DOMAIN appended : kind(appended[i].status)})

\* C17: from the end of replay on, each counter is its value after replay
\* plus the number of lines this run appended with that outcome; and when
\* the run has printed its summary, replaying the record file gives the
\* counters of that summary
C17_CounterConsistency ==
    /\ pc \notin {"start", "fatal_rec"} =>
         counter = [good  |-> loaded.good + Appended(LAMBDA st : st = GOOD),
                    bad   |-> loaded.bad + Appended(LAMBDA st : st = BAD),
                    na    |-> loaded.na + Appended(LAMBDA st : st = NA),
                    error |-> loaded.error + Appended(LAMBDA st : starts_with(st, ERROR))]
    /\ pc = "done" => load_rec(rec, from_str(srcArg), Counter).counter = counter

\* C18: no key of the table of a list source, no name of the skip set and
\* no name of an appended line is the empty string
C18_NonEmptyNames ==
    \A n \in DOMAIN src.map \cup rec_set \cup Names(appended) : n # <<>>

\* C19: replaying the line appended for a name and an outcome puts exactly
\* that name in the skip set and adds one to exactly the counter of that
\* outcome
C19_RoundTrip ==
    \A i \in DOMAIN appended :
        LET r == appended[i]
            replayed == load_rec(Rendered(r), from_str(srcArg), Counter)
        IN  /\ replayed.res = {r.name}
            /\ replayed.counter =
                 [good  |-> IF r.status = GOOD THEN 1 ELSE 0,
                  bad   |-> IF r.status = BAD THEN 1 ELSE 0,
                  na    |-> IF r.status = NA THEN 1 ELSE 0,
                  error |-> IF starts_with(r.status, ERROR) THEN 1 ELSE 0]

\* the record file has a line for `name`: replay found one at startup, or
\* this run appended one and its text is in the file
HasLine(name) ==
    \/ name \in rec_set
    \/ \E i \in DOMAIN appended :
         appended[i].name = name /\ contains(rec, Rendered(appended[i]))

\* the names for which src.provide returned a URL in the loop over FILE
Provided == {resolved[i].name : i \in {j \in DOMAIN resolved : resolved[j].url # None}}

\* C20: when the run has printed its summary, the base name of every
\* argument that is a regular file has a line in the record file, and so has
\* every name of the table of a list source; the names probed are exactly
\* the names of the table that replay did not remove and the loop over FILE
\* did not take, each probed once and given one line; and no name was both
\* compared and probed
C20_Coverage ==
    pc = "done" =>
        /\ \A i \in DOMAIN FILE : is_file(FILE[i]) => HasLine(file_name(FILE[i]))
        /\ \A n \in DOMAIN Table0 : HasLine(n)
        /\ Range(probed) = DOMAIN Table0 \ (rec_set \cup Provided)
        /\ Cardinality(Range(probed)) = Len(probed)
        /\ [i \in DOMAIN ProbeLines |-> ProbeLines[i].name] = probed
        /\ compared \cap Range(probed) = {}

\* a finished run over a two-name table: one name was compared in the loop
\* over FILE, the other was left to the probe loop
C20_Witness ==
    /\ pc = "done"
    /\ DOMAIN Table0 = {pA, pUN}
    /\ rec_set = {}
    /\ compared = {pA}
    /\ probed = <<pUN>>
    /\ Len(appended) = 2
====
